---- MODULE Spec2Model ----
(***************************************************************************)
(* A model of the sales-ledger viewer: the Flask application app.py (the   *)
(* shared table cache, load_data, the upload/rebuild path and the query    *)
(* engine) and the row classifier normalize.py (iter_entries).             *)
(***************************************************************************)
EXTENDS Integers, Sequences, FiniteSets, TLC

(***************************************************************************)
(* Bounds of the model.                                                    *)
(***************************************************************************)
\* number of request-handling threads of the server
NumThreads == 2
\* number of upload requests served in one behaviour
MaxUploads == 2
\* rows fed to one run of iter_entries: over rows of every entry kind,
MaxRows == 4
\* over rows whose payment cells vary,
MaxPayRows == 2
\* and over rows whose length and date cells vary
MaxDateRows == 2
\* rows of a frame read from the interchange file
MaxLoadRows == 1
\* rows of a canonical table given to a query
MaxTableRows == 3

VARIABLES
    \* ---- app.py: the server's shared state and its request threads
    pc,          \* pc[t]: where thread t stands in its handler
    op,          \* op[t]: the handler thread t is running
    lockHolder,  \* DATA_LOCK: the thread holding it, or 0
    cache,       \* _df_cache
    dataFile,    \* DATA_FILE (normalized_ledgers.tsv)
    srcExists,   \* the source ledgers present in DATA_DIR
    normalized,  \* normalized[t]: load_data's local table
    result,      \* result[t]: what load_data returned to thread t
    started,     \* started[t]: classification processes the upload has run
    uploads,     \* upload requests accepted so far
    \* ---- normalize.py: one run of iter_entries
    ledger_type,   \* the ledger variant of the run
    supplier_name, \* iter_entries' carried supplier name
    block_index,   \* iter_entries' block counter
    line_in_block, \* iter_entries' line counter
    rows,          \* the raw rows consumed so far (source_line = their number)
    emitted,       \* the entries yielded so far
    iterStatus,    \* "running", or the exception that ended the run
    \* ---- app.py: one build of the canonical table (the body of load_data)
    df,          \* the table read from the interchange file
    canon,       \* the canonical table built from it
    \* ---- app.py: one query (api_transactions)
    table,       \* the canonical table load_data handed to the query
    args,        \* request.args
    query,       \* the handler's filtered and sorted frame
    response     \* the records returned

concVars == <<pc, op, lockHolder, cache, dataFile, srcExists, normalized,
              result, started, uploads>>

iterVars == <<ledger_type, supplier_name, block_index, line_in_block, rows,
              emitted, iterStatus>>

loadVars == <<df, canon>>

queryVars == <<table, args, query, response>>

vars == <<concVars, iterVars, loadVars, queryVars>>

notConcVars == <<iterVars, loadVars, queryVars>>

notIterVars == <<concVars, loadVars, queryVars>>

notLoadVars == <<concVars, iterVars, queryVars>>

notQueryVars == <<concVars, iterVars, loadVars>>

(***************************************************************************)
(* Text.  A str is modelled as the sequence of its characters.  The        *)
(* characters of the model are the ASCII ones written as themselves and    *)
(* the following, named in ASCII:                                          *)
(*   "FWSP" U+3000 (full-width space)   "DASH" U+2015                      *)
(*   "KEI" U+8A08   "ZAN" U+6B8B   "DAKA" U+9AD8   "KURI" U+7E70           *)
(*   "KOSHI" U+8D8A   "SHI" U+652F   "HARAI" U+6255                        *)
(*   "SHOU" U+6D88   "HI" U+8CBB   "ZEI" U+7A0E                            *)
(***************************************************************************)
Min(S) == CHOOSE x \in S : \A y \in S : x <= y

\* the characters str.strip() removes
White == {" ", "FWSP"}

RECURSIVE LStrip(_)
LStrip(s) ==
    IF s # <<>> /\ Head(s) \in White THEN LStrip(Tail(s)) ELSE s

RECURSIVE RStrip(_)
RStrip(s) ==
    IF s # <<>> /\ s[Len(s)] \in White
       THEN RStrip(SubSeq(s, 1, Len(s) - 1))
       ELSE s

\* str.strip()
Strip(s) == RStrip(LStrip(s))

\* str.replace(ch, "")
RECURSIVE Remove(_, _)
Remove(s, ch) ==
    IF s = <<>> THEN <<>>
    ELSE IF Head(s) = ch THEN Remove(Tail(s), ch)
    ELSE <<Head(s)>> \o Remove(Tail(s), ch)

\* sub in s
Contains(s, sub) ==
    \E i \in 1..(Len(s) - Len(sub) + 1) : SubSeq(s, i, i + Len(sub) - 1) = sub

Digits == <<"0", "1", "2", "3", "4", "5", "6", "7", "8", "9">>

DigitSet == {Digits[i] : i \in 1..10}

DigitVal(c) == (CHOOSE i \in 1..10 : Digits[i] = c) - 1

\* str(n), n >= 0
RECURSIVE IntText(_)
IntText(n) ==
    IF n < 10 THEN <<Digits[n + 1]>>
    ELSE IntText(n \div 10) \o <<Digits[(n % 10) + 1]>>

\* whether int(s) succeeds: s, stripped, is a non-empty run of digits
\* (anything else over the model's characters raises ValueError)
IntParses(s) ==
    LET t == Strip(s) IN t # <<>> /\ \A i \in 1..Len(t) : t[i] \in DigitSet

RECURSIVE DigitsValue(_)
DigitsValue(t) ==
    IF t = <<>> THEN 0
    ELSE DigitsValue(SubSeq(t, 1, Len(t) - 1)) * 10 + DigitVal(t[Len(t)])

\* int(s), where it succeeds
IntValue(s) == DigitsValue(Strip(s))

\* the format specs 04d and 02d, n >= 0
ZeroPad(n, width) ==
    LET t == IntText(n)
    IN IF Len(t) >= width THEN t ELSE [i \in 1..(width - Len(t)) |-> "0"] \o t

(***************************************************************************)
(* normalize.py                                                            *)
(***************************************************************************)
\* the two ledger variants: payables (kaikake) and receivables (urikake)
LedgerTypes == {"kaikake", "urikake"}

TARGET_MIN_COLUMNS == 18

sanitize_numeric(value) == Remove(Strip(value), ",")

normalize_row(row) ==
    IF Len(row) < TARGET_MIN_COLUMNS
       THEN row \o [i \in 1..(TARGET_MIN_COLUMNS - Len(row)) |-> <<>>]
       ELSE row

\* row[idx] if idx < len(row) else ""   (idx counts from 0)
Get(row, idx) == IF idx < Len(row) THEN row[idx + 1] ELSE <<>>

CandidateIndices(ledger) ==
    IF ledger = "kaikake" THEN <<3, 4, 5, 6, 7, 8>> ELSE <<5, 6, 3, 4, 7, 8>>

\* (original, stripped, idx)
select_description(row, ledger) ==
    LET cand == CandidateIndices(ledger)
        hits == {k \in 1..Len(cand) :
                    cand[k] < Len(row) /\ Strip(row[cand[k] + 1]) # <<>>}
        anywhere == {i \in 1..Len(row) : Strip(row[i]) # <<>>}
    IN  IF hits # {}
           THEN LET idx == cand[Min(hits)]
                IN [raw |-> row[idx + 1], text |-> Strip(row[idx + 1]), idx |-> idx]
        ELSE IF anywhere # {}
           THEN LET i == Min(anywhere)
                IN [raw |-> row[i], text |-> Strip(row[i]), idx |-> i - 1]
        ELSE [raw |-> <<>>, text |-> <<>>, idx |-> -1]

classify_entry(row, desc) ==
    IF Strip(row[1]) = <<>> /\ desc # <<>>
       THEN IF Contains(desc, <<"KURI", " ", "KOSHI", " ", "ZAN", " ", "DAKA">>)
               THEN "opening_balance"
            ELSE IF Contains(desc, <<"KEI">>) \/ Contains(desc, <<"DASH">>)
               THEN "summary"
            ELSE IF Contains(desc, <<"ZAN", "DAKA">>)
               THEN "summary"
            ELSE "supplier_header"
       ELSE LET label == Remove(desc, "FWSP")
            IN  IF /\ Contains(label, <<"SHI", "HARAI">>)
                   /\ ~(Contains(label, <<"KEI">>) \/ Contains(label, <<"KURI", "KOSHI">>))
                   THEN "payment"
                ELSE IF Contains(label, <<"SHOU", "HI", "ZEI">>)
                   THEN "tax"
                ELSE "detail"

EntryKinds ==
    {"supplier_header", "detail", "payment", "tax", "summary", "opening_balance"}

\* extract_date: raised is TRUE where int() raises ValueError
extract_date(parts) ==
    LET year == Strip(parts[1])
        month == Strip(parts[2])
        day == Strip(parts[3])
    IN  IF ~(year # <<>> /\ month # <<>> /\ day # <<>>)
           THEN [raised |-> FALSE, text |-> <<>>]
        ELSE IF ~(IntParses(year) /\ IntParses(month) /\ IntParses(day))
           THEN [raised |-> TRUE, text |-> <<>>]
        ELSE [raised |-> FALSE,
              text |-> ZeroPad(IntValue(year), 4) \o <<"-">>
                         \o ZeroPad(IntValue(month), 2) \o <<"-">>
                         \o ZeroPad(IntValue(day), 2)]

\* the references loop of iter_entries
References(row, description_index) ==
    LET idxs == SelectSeq(<<3, 4, 5, 6, 7, 8, 9>>,
                          LAMBDA i : i # description_index)
        taken == SubSeq(idxs, 1, 5)
        vals == [k \in 1..Len(taken) |-> Strip(Get(row, taken[k]))]
    IN  vals \o [k \in 1..(5 - Len(vals)) |-> <<>>]

\* A loop body that does not reset line_in_block at a header.
AdvanceCounters_NoReset(entry_type, block, line) ==
    IF entry_type = "supplier_header"
       THEN [block_index |-> block + 1, line_in_block |-> line]
       ELSE [block_index |-> block, line_in_block |-> line + 1]

\* if entry_type == "supplier_header": block_index += 1; line_in_block = 0
\* else: line_in_block += 1
AdvanceCounters(entry_type, block, line) ==
    IF entry_type = "supplier_header"
       THEN [block_index |-> block + 1, line_in_block |-> 0]
       ELSE [block_index |-> block, line_in_block |-> line + 1]

\* the variant-dependent fields of an entry
Fields(row, ledger) ==
    IF ledger = "urikake"
       THEN [quantity |-> sanitize_numeric(Get(row, 11)),
             quantity_note |->
                 IF sanitize_numeric(Get(row, 9)) # <<>>
                    THEN sanitize_numeric(Get(row, 9))
                    ELSE sanitize_numeric(Get(row, 10)),
             unit |-> Strip(Get(row, 13)),
             tax_rate |-> sanitize_numeric(Get(row, 12)),
             unit_price |-> sanitize_numeric(Get(row, 14)),
             amount |-> sanitize_numeric(Get(row, 15)),
             payment |-> sanitize_numeric(Get(row, 16))
                            \o sanitize_numeric(Get(row, 17))]
       ELSE [quantity |-> sanitize_numeric(Get(row, 9)),
             quantity_note |-> sanitize_numeric(Get(row, 10)),
             unit |-> Strip(Get(row, 11)),
             tax_rate |-> sanitize_numeric(Get(row, 12)),
             unit_price |-> sanitize_numeric(Get(row, 13)),
             amount |-> sanitize_numeric(Get(row, 14)),
             payment |-> sanitize_numeric(Get(row, 15))]

IterInit ==
    /\ ledger_type \in LedgerTypes
    /\ supplier_name = <<>>
    /\ block_index = 0
    /\ line_in_block = 0
    /\ rows = <<>>
    /\ emitted = <<>>
    /\ iterStatus = "running"

\* no run of iter_entries
IterIdle ==
    /\ ledger_type = "kaikake"
    /\ supplier_name = <<>>
    /\ block_index = 0
    /\ line_in_block = 0
    /\ rows = <<>>
    /\ emitted = <<>>
    /\ iterStatus = "idle"

\* One iteration of iter_entries' loop, on the raw row raw_row.
IterStep(raw_row) ==
    /\ iterStatus = "running"
    /\ rows' = Append(rows, raw_row)
    /\ LET source_line == Len(rows) + 1
           row == normalize_row(raw_row)
           sel == select_description(row, ledger_type)
           entry_type == classify_entry(row, sel.text)
           counters == AdvanceCounters(entry_type, block_index, line_in_block)
           name == IF entry_type = "supplier_header" THEN sel.text ELSE supplier_name
           date == extract_date(row)
           f == Fields(row, ledger_type)
       IN  IF \A i \in 1..Len(row) : Strip(row[i]) = <<>>
              THEN UNCHANGED <<supplier_name, block_index, line_in_block,
                               emitted, iterStatus>>
              ELSE /\ supplier_name' = name
                   /\ block_index' = counters.block_index
                   /\ line_in_block' = counters.line_in_block
                   /\ IF date.raised
                         THEN /\ iterStatus' = "ValueError"
                              /\ UNCHANGED emitted
                         ELSE /\ UNCHANGED iterStatus
                              /\ emitted' = Append(emitted,
                                   [ledger_type |-> ledger_type,
                                    supplier_name |-> name,
                                    entry_type |-> entry_type,
                                    block_index |-> IntText(counters.block_index),
                                    line_in_block |-> IntText(counters.line_in_block),
                                    source_line |-> IntText(source_line),
                                    transaction_date |-> date.text,
                                    description |-> sel.text,
                                    description_raw |-> sel.raw,
                                    references |-> References(row, sel.idx),
                                    quantity |-> f.quantity,
                                    quantity_note |-> f.quantity_note,
                                    unit |-> f.unit,
                                    tax_rate |-> f.tax_rate,
                                    unit_price |-> f.unit_price,
                                    amount |-> f.amount,
                                    payment |-> f.payment])
    /\ UNCHANGED ledger_type
    /\ UNCHANGED notIterVars

(***************************************************************************)
(* Raw rows fed to iter_entries                                            *)
(***************************************************************************)
\* the row of `len` cells whose cell idx (from 0) is cells[idx], "" elsewhere
RowWith(len, cells) ==
    [i \in 1..len |-> IF (i - 1) \in DOMAIN cells THEN cells[i - 1] ELSE <<>>]

\* year, month, day cells of a dated row
Dated == (0 :> <<"2", "0", "2", "4">>) @@ (1 :> <<"7">>) @@ (2 :> <<"1", "2">>)

\* rows of every entry kind, blank rows, short rows and a row whose year is
\* not a number
BlockRows ==
    { <<>>,
      RowWith(4, 3 :> <<" ">>),
      RowWith(4, 3 :> <<"A", "c", "m", "e">>),
      RowWith(18, 5 :> <<"FWSP", "B", " ">>),
      RowWith(9, 3 :> <<"g", "o", "u", "KEI">>),
      RowWith(18, 3 :> <<"KURI", " ", "KOSHI", " ", "ZAN", " ", "DAKA">>),
      RowWith(18, Dated @@ (3 :> <<"x">>)),
      RowWith(18, Dated @@ (3 :> <<"SHI", "FWSP", "HARAI">>)),
      RowWith(18, Dated @@ (5 :> <<"SHOU", "HI", "ZEI">>)),
      <<<<"2", "0", "2", "4">>>>,
      RowWith(4, (0 :> <<"a">>) @@ (1 :> <<"7">>) @@ (2 :> <<"1", "2">>)) }

NumCells ==
    { <<>>, <<"1", "0", "0">>, <<"2", "5">>, <<" ", "1", ",", "0", "0", "0", " ">> }

\* dated detail rows whose cells 15, 16 and 17 vary
PayRows ==
    { RowWith(18, Dated @@ (5 :> <<"x">>) @@ (15 :> c15) @@ (16 :> c16) @@ (17 :> c17)) :
        c15 \in NumCells, c16 \in NumCells, c17 \in NumCells }

DateCells == { <<>>, <<"2", "0", "2", "4">>, <<" ", "7">>, <<"a", "b">> }

RowLens == {1, 3, 19}

\* rows of several lengths whose year, month and day cells vary
DateRows ==
    { SubSeq(RowWith(19, (0 :> y) @@ (1 :> m) @@ (2 :> d) @@ (18 :> <<"x">>)), 1, n) :
        y \in DateCells, m \in DateCells, d \in DateCells, n \in RowLens }

\* if not any(cell.strip() for cell in row)
IsBlankRow(raw_row) == \A i \in 1..Len(raw_row) : Strip(raw_row[i]) = <<>>

NextBlocks ==
    \E r \in BlockRows : Len(rows) < MaxRows /\ IterStep(r)

NextPayment ==
    \E r \in PayRows : Len(rows) < MaxPayRows /\ IterStep(r)

NextDates ==
    \E r \in DateRows : Len(rows) < MaxDateRows /\ IterStep(r)

(***************************************************************************)
(* app.py: the canonical table built by load_data from the interchange     *)
(* file.  A DataFrame is a set of column names and rows keyed by the       *)
(* index; a row maps each column to its value.  Column names that are      *)
(* Japanese in the source are written in romaji.  The search_index column  *)
(* is not part of this model.                                              *)
(***************************************************************************)
\* pd.NA in an object column
NA == <<"<NA>">>

\* a float64 value: NaN, or an exact fraction num/den
NaN == [nan |-> TRUE, num |-> 0, den |-> 1]

Number(n) == [nan |-> FALSE, num |-> n, den |-> 1]

RECURSIVE GCD(_, _)
GCD(a, b) == IF b = 0 THEN a ELSE GCD(b, a % b)

\* a / b for numbers a and b, b not zero
Divide(a, b) ==
    LET n == a.num * b.den
        d == a.den * b.num
        g == GCD(n, d)
    IN [nan |-> FALSE, num |-> n \div g, den |-> d \div g]

\* pd.to_numeric(column, errors="coerce") on one value of a str column
to_numeric(v) ==
    IF v = NA \/ v = <<>> \/ \E i \in 1..Len(v) : v[i] \notin DigitSet
       THEN NaN
       ELSE Number(DigitsValue(v))

\* pd.NaT / None in date_parsed
NaT == [nat |-> TRUE, ord |-> 0]

Timestamp(y, m, d) == [nat |-> FALSE, ord |-> (y * 100 + m) * 100 + d]

IsoDateText(t) ==
    /\ Len(t) = 10
    /\ t[5] = "-"
    /\ t[8] = "-"
    /\ \A i \in {1, 2, 3, 4, 6, 7, 9, 10} : t[i] \in DigitSet

\* _infer_date, on the values the interchange file holds: an absent value,
\* a YYYY-MM-DD date, or text neither pandas nor dateutil can parse
_infer_date(value) ==
    IF value = NA THEN NaT
    ELSE IF IsoDateText(value)
       THEN Timestamp(DigitsValue(SubSeq(value, 1, 4)),
                      DigitsValue(SubSeq(value, 6, 7)),
                      DigitsValue(SubSeq(value, 9, 10)))
    ELSE NaT

standard_names ==
    [date |-> <<"date", "hizuke", "denpyo_hizuke", "transaction_date">>,
     type |-> <<"type", "shubetsu", "kubun", "ledger_type", "entry_type">>,
     counterparty |-> <<"counterparty", "aitesaki", "tokuisaki", "shiiresaki",
                        "supplier_name", "customer_name">>,
     item |-> <<"item", "hinmoku", "tekiyo", "hinmei", "description">>,
     amount |-> <<"amount", "kingaku", "zeikomi_kingaku", "zeinuki_kingaku">>,
     quantity |-> <<"quantity", "suryo">>,
     document_id |-> <<"document_id", "denpyo_bango", "seikyu_bango",
                       "reference_1", "reference_2", "reference_3",
                       "reference_4", "reference_5">>,
     memo |-> <<"memo", "biko", "memo_kana", "description_raw", "quantity_note">>]

\* cols[field] = next((c for c in candidates if c in df.columns), None)
ResolveColumn(field, columns) ==
    LET cands == standard_names[field]
        present == {k \in 1..Len(cands) : cands[k] \in columns}
    IN IF present = {} THEN "None" ELSE cands[Min(present)]

ReferenceColumns ==
    <<"reference_1", "reference_2", "reference_3", "reference_4", "reference_5">>

\* sep.join(parts)
RECURSIVE Join(_, _)
Join(parts, sep) ==
    IF parts = <<>> THEN <<>>
    ELSE IF Len(parts) = 1 THEN parts[1]
    ELSE parts[1] \o sep \o Join(Tail(parts), sep)

\* refs.fillna("").agg(lambda r: "-".join([x for x in r if x]), axis=1)
JoinedReferences(r, columns) ==
    LET refs == SelectSeq(ReferenceColumns, LAMBDA c : c \in columns)
        vals == [k \in 1..Len(refs) |-> IF r[refs[k]] = NA THEN <<>> ELSE r[refs[k]]]
    IN Join(SelectSeq(vals, LAMBDA x : x # <<>>), <<"-">>)

\* normalized["document_id"] of the row r of df
DocumentId(r, columns) ==
    LET src == ResolveColumn("document_id", columns)
        direct == IF src = "None" THEN NA ELSE r[src]
    IN  IF "reference_1" \in columns
           THEN LET filled == IF direct = NA THEN <<>> ELSE direct
                IN IF filled # <<>> THEN filled ELSE JoinedReferences(r, columns)
           ELSE direct

\* the columns of `normalized` when unit_price is looked for (line 128)
ColumnsBeforeUnitPrice == DOMAIN standard_names \cup {"date_parsed"}

\* if "unit_price" not in normalized.columns: normalized["unit_price"] = pd.NA
SourceUnitPrice(r, columns) ==
    IF "unit_price" \notin ColumnsBeforeUnitPrice THEN NA ELSE r["unit_price"]

\* unit_price after the numeric coercion and the back-fill
UnitPrice(r, columns) ==
    LET amount == to_numeric(IF ResolveColumn("amount", columns) = "None"
                                THEN NA ELSE r[ResolveColumn("amount", columns)])
        quantity == to_numeric(IF ResolveColumn("quantity", columns) = "None"
                                  THEN NA ELSE r[ResolveColumn("quantity", columns)])
        unit_price == to_numeric(SourceUnitPrice(r, columns))
        mask_compute == /\ unit_price.nan
                        /\ ~amount.nan
                        /\ ~quantity.nan
                        /\ quantity.num # 0
    IN IF mask_compute THEN Divide(amount, quantity) ELSE unit_price

UpperCase == <<"A", "B", "C", "D", "E", "F", "G", "H", "I", "J", "K", "L", "M",
               "N", "O", "P", "Q", "R", "S", "T", "U", "V", "W", "X", "Y", "Z">>

LowerCase == <<"a", "b", "c", "d", "e", "f", "g", "h", "i", "j", "k", "l", "m",
               "n", "o", "p", "q", "r", "s", "t", "u", "v", "w", "x", "y", "z">>

\* str.lower()
Lower(s) ==
    [i \in 1..Len(s) |->
        IF \E k \in 1..26 : UpperCase[k] = s[i]
           THEN LowerCase[CHOOSE k \in 1..26 : UpperCase[k] = s[i]]
           ELSE s[i]]

\* the labels _normalize_type maps to "purchase":
\* kaikake, shiire, Purchase, purchase, buy, supplier_detail,
\* supplier_balance, opening_balance
PurchaseLabels ==
    { <<"KAI", "KAKE">>, <<"SHI_IRE_1", "SHI_IRE_2">>,
      <<"P", "u", "r", "c", "h", "a", "s", "e">>,
      <<"p", "u", "r", "c", "h", "a", "s", "e">>,
      <<"b", "u", "y">>,
      <<"s", "u", "p", "p", "l", "i", "e", "r", "_", "d", "e", "t", "a", "i", "l">>,
      <<"s", "u", "p", "p", "l", "i", "e", "r", "_", "b", "a", "l", "a", "n", "c", "e">>,
      <<"o", "p", "e", "n", "i", "n", "g", "_", "b", "a", "l", "a", "n", "c", "e">> }

\* the labels _normalize_type maps to "sale":
\* urikake, hanbai, Sales, sales, sale, customer_detail, customer_balance
SaleLabels ==
    { <<"URI", "KAKE">>, <<"HAN", "BAI">>,
      <<"S", "a", "l", "e", "s">>, <<"s", "a", "l", "e", "s">>,
      <<"s", "a", "l", "e">>,
      <<"c", "u", "s", "t", "o", "m", "e", "r", "_", "d", "e", "t", "a", "i", "l">>,
      <<"c", "u", "s", "t", "o", "m", "e", "r", "_", "b", "a", "l", "a", "n", "c", "e">> }

_normalize_type(v) ==
    LET vs == IF v = NA THEN <<>> ELSE Strip(v)
    IN  IF vs \in PurchaseLabels THEN <<"p", "u", "r", "c", "h", "a", "s", "e">>
        ELSE IF vs \in SaleLabels THEN <<"s", "a", "l", "e">>
        ELSE IF Lower(vs) # <<>> THEN Lower(vs)
        ELSE <<"u", "n", "k", "n", "o", "w", "n">>

\* _join_refs over memo_cols = ref_cols + [quantity_note]
MemoCombined(r, columns) ==
    LET memo_cols == SelectSeq(ReferenceColumns \o <<"quantity_note">>,
                               LAMBDA c : c \in columns)
        vals == [k \in 1..Len(memo_cols) |->
                    IF r[memo_cols[k]] = NA THEN <<>> ELSE Strip(r[memo_cols[k]])]
    IN Join(SelectSeq(vals, LAMBDA x : x # <<>>), <<" ">>)

\* the columns load_data computes; every other column of df is copied
ComputedColumns ==
    DOMAIN standard_names
        \cup {"date_parsed", "unit_price", "type_norm", "ledger_type", "memo_combined"}

\* the row of `normalized` built from the row r of df
CanonicalRow(r, columns) ==
    LET base == [field \in DOMAIN standard_names |->
                    IF ResolveColumn(field, columns) = "None"
                       THEN NA ELSE r[ResolveColumn(field, columns)]]
    IN  [c \in ComputedColumns \cup columns |->
            CASE c = "document_id" -> DocumentId(r, columns)
              [] c = "date_parsed" -> _infer_date(base["date"])
              [] c = "amount" -> to_numeric(base["amount"])
              [] c = "quantity" -> to_numeric(base["quantity"])
              [] c = "unit_price" -> UnitPrice(r, columns)
              [] c = "type_norm" -> _normalize_type(base["type"])
              [] c = "ledger_type" ->
                    IF "ledger_type" \in columns /\ r["ledger_type"] # NA
                       THEN r["ledger_type"] ELSE base["type"]
              [] c = "memo_combined" -> MemoCombined(r, columns)
              [] c \in DOMAIN standard_names -> base[c]
              [] OTHER -> r[c]]

\* the rows the header filter keeps: ~df["entry_type"].isin(non_tx)
KeptIndex(frame) ==
    {i \in DOMAIN frame.rows :
        ~("entry_type" \in frame.columns
            /\ frame.rows[i]["entry_type"] \in
                   { <<"s", "u", "p", "p", "l", "i", "e", "r", "_", "h", "e", "a", "d", "e", "r">>,
                     <<"c", "u", "s", "t", "o", "m", "e", "r", "_", "h", "e", "a", "d", "e", "r">> })}

\* lines 78-178 of load_data: the canonical table of the frame read from
\* the interchange file
CanonicalTable(frame) ==
    [built |-> TRUE,
     columns |-> ComputedColumns \cup frame.columns,
     rows |-> [i \in KeptIndex(frame) |-> CanonicalRow(frame.rows[i], frame.columns)]]

NotBuilt == [built |-> FALSE]

(***************************************************************************)
(* Frames read from interchange files                                      *)
(***************************************************************************)
\* DEFAULT_HEADERS of normalize.py
DEFAULT_HEADERS ==
    {"ledger_type", "supplier_name", "entry_type", "block_index",
     "line_in_block", "source_line", "transaction_date", "description",
     "description_raw", "reference_1", "reference_2", "reference_3",
     "reference_4", "reference_5", "quantity", "quantity_note", "unit",
     "tax_rate", "unit_price", "amount", "payment"}

\* the interchange schema, the same with a direct document_id column, with
\* a direct document_id column and no reference columns, and with no
\* unit_price column
Schemas ==
    { DEFAULT_HEADERS,
      DEFAULT_HEADERS \cup {"document_id"},
      (DEFAULT_HEADERS \cup {"document_id"}) \ {ReferenceColumns[k] : k \in 1..5},
      DEFAULT_HEADERS \ {"unit_price"} }

\* one row of a frame with the given columns
FrameRow(columns, doc, r1, r3, qty, amt, price, kind) ==
    [c \in columns |->
        CASE c = "document_id" -> doc
          [] c = "reference_1" -> r1
          [] c = "reference_3" -> r3
          [] c = "quantity" -> qty
          [] c = "amount" -> amt
          [] c = "unit_price" -> price
          [] c = "entry_type" -> kind
          [] c = "ledger_type" -> <<"KAI", "KAKE">>
          [] c = "transaction_date" -> <<"2", "0", "2", "4", "-", "0", "7", "-", "1", "2">>
          [] c = "description" -> <<"x">>
          [] OTHER -> NA]

FrameRows(columns) ==
    { FrameRow(columns, doc, r1, r3, qty, amt, price, kind) :
        doc \in {NA, <<"D", "7">>},
        r1 \in {NA, <<"I", "N", "V">>},
        r3 \in {NA, <<"2", "0", "2", "4">>},
        qty \in {NA, <<"0">>, <<"4">>},
        amt \in {NA, <<"1", "0", "0", "0">>},
        price \in {NA, <<"3", "0", "0">>, <<"x">>},
        kind \in { <<"d", "e", "t", "a", "i", "l">>,
                   <<"s", "u", "p", "p", "l", "i", "e", "r", "_", "h", "e", "a", "d", "e", "r">> } }

RECURSIVE FramesOf(_, _)
FramesOf(columns, n) ==
    IF n = 0 THEN {<<>>}
    ELSE {Append(rs, r) : rs \in FramesOf(columns, n - 1), r \in FrameRows(columns)}

\* the frames of 1..max rows
Frames(max) ==
    UNION { { [columns |-> columns, rows |-> rs] : rs \in FramesOf(columns, n) } :
              columns \in Schemas, n \in 1..max }

LoadInit == df \in Frames(MaxLoadRows) /\ canon = NotBuilt

\* no table is being built
LoadIdle == df = <<>> /\ canon = NotBuilt

\* load_data builds the canonical table of the frame it read
BuildTable ==
    /\ ~canon.built
    /\ canon' = CanonicalTable(df)
    /\ UNCHANGED df
    /\ UNCHANGED notLoadVars

(***************************************************************************)
(* app.py: api_transactions, the query engine.  A table is the sequence of *)
(* its rows in index order.                                                *)
(***************************************************************************)
\* unicodedata.normalize("NFKC", text), over the model's characters
NFKC(s) == [i \in 1..Len(s) |-> IF s[i] = "FWSP" THEN " " ELSE s[i]]

\* str.upper()
Upper(s) ==
    [i \in 1..Len(s) |->
        IF \E k \in 1..26 : LowerCase[k] = s[i]
           THEN UpperCase[CHOOSE k \in 1..26 : LowerCase[k] = s[i]]
           ELSE s[i]]

_SPACE_CHARACTERS == <<" ", "FWSP">>

_normalize_for_search(value) ==
    IF value = NA THEN <<>>
    ELSE Upper(Remove(Remove(NFKC(value), _SPACE_CHARACTERS[1]), _SPACE_CHARACTERS[2]))

\* the code points of the characters document ids are made of, in order
CodeOrder == <<" ", "-">> \o Digits \o UpperCase \o LowerCase

CodePoint(c) == CHOOSE i \in 1..Len(CodeOrder) : CodeOrder[i] = c

\* s < t for two str (lexicographic, by code point)
RECURSIVE TextLess(_, _)
TextLess(s, t) ==
    IF t = <<>> THEN FALSE
    ELSE IF s = <<>> THEN TRUE
    ELSE IF Head(s) = Head(t) THEN TextLess(Tail(s), Tail(t))
    ELSE CodePoint(Head(s)) < CodePoint(Head(t))

\* The place of a before b (-1), after b (1) or neither (0) under one sort
\* key, given which are absent and which is smaller.
KeyOrder(a_na, b_na, a_less, b_less, ascending, na_position) ==
    IF a_na /\ b_na THEN 0
    ELSE IF a_na THEN (IF na_position = "last" THEN 1 ELSE -1)
    ELSE IF b_na THEN (IF na_position = "last" THEN -1 ELSE 1)
    ELSE IF a_less THEN (IF ascending THEN -1 ELSE 1)
    ELSE IF b_less THEN (IF ascending THEN 1 ELSE -1)
    ELSE 0

\* the order of rows a and b under by=["date_parsed", "document_id"]
RowOrder(a, b, ascending, na_position) ==
    LET first == KeyOrder(a.date_parsed.nat, b.date_parsed.nat,
                          a.date_parsed.ord < b.date_parsed.ord,
                          b.date_parsed.ord < a.date_parsed.ord,
                          ascending[1], na_position)
    IN  IF first # 0 THEN first
        ELSE KeyOrder(a.document_id = NA, b.document_id = NA,
                      TextLess(a.document_id, b.document_id),
                      TextLess(b.document_id, a.document_id),
                      ascending[2], na_position)

RECURSIVE InsertSorted(_, _, _, _)
InsertSorted(sorted, r, ascending, na_position) ==
    IF sorted = <<>> THEN <<r>>
    ELSE IF RowOrder(r, Head(sorted), ascending, na_position) < 0
       THEN <<r>> \o sorted
    ELSE <<Head(sorted)>> \o InsertSorted(Tail(sorted), r, ascending, na_position)

\* DataFrame.sort_values(by=["date_parsed", "document_id"], ascending=...,
\* na_position=...): a stable sort on both keys
RECURSIVE sort_values(_, _, _)
sort_values(frame, ascending, na_position) ==
    IF frame = <<>> THEN <<>>
    ELSE InsertSorted(sort_values(SubSeq(frame, 1, Len(frame) - 1), ascending, na_position),
                      frame[Len(frame)], ascending, na_position)

\* A sort that is ascending on both keys.
SortArguments_DateAscending == [ascending |-> <<TRUE, TRUE>>, na_position |-> "last"]

\* ascending=[False, True], na_position="last"
SortArguments == [ascending |-> <<FALSE, TRUE>>, na_position |-> "last"]

\* the filters of api_transactions, applied in the handler's order
Filtered(frame, a) ==
    LET start_ts == _infer_date(a.start_date)
        end_ts == _infer_date(a.end_date)
        kw_normalized == _normalize_for_search(a.q)
        doc_ts == _infer_date(a.document_date)
        keep(r) ==
            /\ (a.start_date # <<>> /\ ~start_ts.nat) =>
                   (~r.date_parsed.nat /\ r.date_parsed.ord >= start_ts.ord)
            /\ (a.end_date # <<>> /\ ~end_ts.nat) =>
                   (~r.date_parsed.nat /\ r.date_parsed.ord <= end_ts.ord)
            /\ a.types # {} => r.type_norm \in a.types
            /\ (a.q # <<>> /\ kw_normalized # <<>>) =>
                   (r.search_index # NA /\ Contains(r.search_index, kw_normalized))
            /\ a.document_id # <<>> =>
                   (IF r.document_id = NA THEN <<>> ELSE r.document_id) = a.document_id
            /\ (a.document_date # <<>> /\ ~doc_ts.nat) =>
                   (~r.date_parsed.nat /\ r.date_parsed.ord = doc_ts.ord)
    IN SelectSeq(frame, keep)

\* the line-break marker of item_memo
Marker == <<"<", "b", "r", " ", "/", ">">>

\* str.strip(chars): removes leading and trailing characters of the set chars
RECURSIVE StripChars(_, _)
StripChars(s, chars) ==
    IF s # <<>> /\ Head(s) \in chars THEN StripChars(Tail(s), chars)
    ELSE IF s # <<>> /\ s[Len(s)] \in chars
       THEN StripChars(SubSeq(s, 1, Len(s) - 1), chars)
    ELSE s

\* f"{item or ''}<br />{memo or ''}".strip("<br />")
ItemMemo(item, memo) ==
    LET left == IF item # NA /\ Strip(item) # <<>> THEN item ELSE <<>>
        right == IF memo # NA /\ Strip(memo) # <<>> THEN memo ELSE <<>>
    IN StripChars(left \o Marker \o right, {Marker[i] : i \in 1..Len(Marker)})

\* x + y for numbers
Add(x, y) ==
    LET n == x.num * y.den + y.num * x.den
        d == x.den * y.den
        g == GCD(n, d)
    IN [nan |-> FALSE, num |-> n \div g, den |-> d \div g]

\* Series.fillna(0)
FillZero(x) == IF x.nan THEN Number(0) ELSE x

\* v.strftime("%Y-%m-%d") if pd.notna(v) else ""
DateIso(v) ==
    IF v.nat THEN <<>>
    ELSE ZeroPad(v.ord \div 10000, 4) \o <<"-">>
            \o ZeroPad((v.ord \div 100) % 100, 2) \o <<"-">>
            \o ZeroPad(v.ord % 100, 2)

\* fillna(""), on a str value and on a number
Blank(v) == IF v = NA THEN <<>> ELSE v

BlankNumber(x) == IF x.nan THEN <<>> ELSE x

\* one record of the response, from a row of the sorted query
Record(r, has_payment) ==
    [date |-> Blank(r.date),
     ledger_type |-> Blank(r.ledger_type),
     document_id |-> Blank(r.document_id),
     counterparty |-> Blank(r.counterparty),
     item |-> Blank(r.item),
     quantity |-> BlankNumber(r.quantity),
     unit_price |-> BlankNumber(r.unit_price),
     amount |-> BlankNumber(r.amount),
     memo |-> Blank(r.memo_combined),
     item_memo |-> ItemMemo(r.item, r.memo_combined),
     total_amount |->
         IF has_payment
            THEN Add(FillZero(r.amount), FillZero(to_numeric(r.payment)))
            ELSE FillZero(r.amount),
     type_norm |-> r.type_norm,
     date_iso |-> DateIso(r.date_parsed)]

NoResponse == [done |-> FALSE]

\* api_transactions: filter, sort, project
ApiTransactions ==
    /\ ~response.done
    /\ LET sorted == sort_values(Filtered(table.rows, args),
                                 SortArguments.ascending, SortArguments.na_position)
       IN  /\ query' = sorted
           /\ response' =
                 [done |-> TRUE,
                  count |-> Len(sorted),
                  items |-> [i \in 1..Len(sorted) |->
                                Record(sorted[i], "payment" \in table.columns)]]
    /\ UNCHANGED <<table, args>>
    /\ UNCHANGED notQueryVars

\* no query is being served
QueryIdle ==
    /\ table = [columns |-> {}, rows |-> <<>>]
    /\ args = <<>>
    /\ query = <<>>
    /\ response = NoResponse

(***************************************************************************)
(* Canonical tables and requests given to the query engine                 *)
(***************************************************************************)
Purchase == <<"p", "u", "r", "c", "h", "a", "s", "e">>

Sale == <<"s", "a", "l", "e">>

\* a row of a canonical table
TableRow(date_parsed, document_id, item, memo_combined) ==
    [date |-> IF date_parsed.nat THEN NA ELSE DateIso(date_parsed),
     date_parsed |-> date_parsed,
     ledger_type |-> IF document_id = <<"A">> THEN <<"URI", "KAKE">> ELSE <<"KAI", "KAKE">>,
     type_norm |-> IF document_id = <<"A">> THEN Sale ELSE Purchase,
     document_id |-> document_id,
     counterparty |-> <<"A", "c", "m", "e">>,
     item |-> item,
     quantity |-> Number(4),
     unit_price |-> Number(250),
     amount |-> IF date_parsed.nat THEN NaN ELSE Number(1000),
     payment |-> IF document_id = NA THEN <<"2", "5">> ELSE NA,
     memo_combined |-> memo_combined,
     search_index |-> _normalize_for_search(document_id)
                         \o _normalize_for_search(item)
                         \o _normalize_for_search(memo_combined)]

TableColumns ==
    {"date", "date_parsed", "ledger_type", "type_norm", "document_id",
     "counterparty", "item", "quantity", "unit_price", "amount", "payment",
     "memo_combined", "search_index"}

Day1 == Timestamp(2024, 1, 1)

Day2 == Timestamp(2024, 1, 2)

\* rows that differ in date_parsed and document_id
SortRows ==
    { TableRow(d, doc, <<"x">>, <<"m">>) :
        d \in {NaT, Day1, Day2},
        doc \in {<<"A">>, <<"B">>, <<"C">>} }
      \cup {TableRow(Day1, NA, <<"x">>, <<"m">>)}

RECURSIVE TablesOf(_, _)
TablesOf(rowset, n) ==
    IF n = 0 THEN {<<>>}
    ELSE {Append(rs, r) : rs \in TablesOf(rowset, n - 1), r \in rowset}

NoFilter ==
    [start_date |-> <<>>, end_date |-> <<>>, types |-> {}, q |-> <<>>,
     document_id |-> <<>>, document_date |-> <<>>]

\* no filter, each filter alone, and a date filter that does not parse
Requests ==
    { NoFilter,
      [NoFilter EXCEPT !.start_date = DateIso(Day2)],
      [NoFilter EXCEPT !.end_date = DateIso(Day1)],
      [NoFilter EXCEPT !.start_date = <<"x">>],
      [NoFilter EXCEPT !.types = {Purchase}],
      [NoFilter EXCEPT !.q = <<"b", " ", "x">>],
      [NoFilter EXCEPT !.document_id = <<"B">>],
      [NoFilter EXCEPT !.document_date = DateIso(Day1)] }

\* queries on tables of up to MaxTableRows rows
SortInit ==
    /\ table \in { [columns |-> cols, rows |-> rs] :
                     cols \in {TableColumns, TableColumns \ {"payment"}},
                     rs \in UNION {TablesOf(SortRows, n) : n \in 0..MaxTableRows} }
    /\ args \in Requests
    /\ query = <<>>
    /\ response = NoResponse

ItemTexts ==
    { NA, <<" ">>, <<"a">>, <<"b", "a", "r">>, <<" ", "x">>, <<"b", "r">>,
      <<"x", "b">>, <<"r", "a", "b">> }

\* memo_combined is never absent: it is "" or the joined references
MemoTexts == { <<>>, <<"m">>, <<"r", "e", "f">>, <<"I", "N", "V", " ", "b">> }

\* queries on one-row tables whose item and memo vary
ItemMemoInit ==
    /\ table \in { [columns |-> TableColumns, rows |-> <<TableRow(Day1, <<"B">>, item, memo)>>] :
                     item \in ItemTexts, memo \in MemoTexts }
    /\ args \in {NoFilter, [NoFilter EXCEPT !.types = {Purchase}]}
    /\ query = <<>>
    /\ response = NoResponse

(***************************************************************************)
(* app.py: cache, lock, load_data, upload                                  *)
(***************************************************************************)
Threads == 1..NumThreads

Sources == {"purchase", "sales"}

\* _df_cache: Optional[pd.DataFrame] = None
NoTable == [kind |-> "None"]

\* A complete canonical table, identified by the generation of the merged
\* interchange file it was read from.
TableOf(file) == [kind |-> "table", built_from |-> file.gen]

NoFile == [exists |-> FALSE, gen |-> 0]

FileGen(g) == [exists |-> TRUE, gen |-> g]

ConcInit ==
    /\ pc = [t \in Threads |-> "idle"]
    /\ op = [t \in Threads |-> "none"]
    /\ lockHolder = 0
    /\ cache = NoTable
    /\ dataFile \in {NoFile, FileGen(0)}
    /\ srcExists \in SUBSET Sources
    /\ normalized = [t \in Threads |-> NoTable]
    /\ result = [t \in Threads |-> NoTable]
    /\ started = [t \in Threads |-> {}]
    /\ uploads = 0

\* force: api_transactions calls load_data(), api_reload and
\* api_upload_ledgers call load_data(force=True)
Force(t) == op[t] \in {"api_reload", "api_upload_ledgers"}

\* A request for /api/transactions arrives: df = load_data()
StartQuery(t) ==
    /\ pc[t] = "idle"
    /\ pc' = [pc EXCEPT ![t] = "ld_wait"]
    /\ op' = [op EXCEPT ![t] = "api_transactions"]
    /\ result' = [result EXCEPT ![t] = NoTable]
    /\ UNCHANGED <<lockHolder, cache, dataFile, srcExists, normalized, started, uploads>>
    /\ UNCHANGED notConcVars

\* A request for /api/reload arrives: load_data(force=True)
StartReload(t) ==
    /\ pc[t] = "idle"
    /\ pc' = [pc EXCEPT ![t] = "ld_wait"]
    /\ op' = [op EXCEPT ![t] = "api_reload"]
    /\ result' = [result EXCEPT ![t] = NoTable]
    /\ UNCHANGED <<lockHolder, cache, dataFile, srcExists, normalized, started, uploads>>
    /\ UNCHANGED notConcVars

\* A request for /api/upload_ledgers arrives; the uploaded files (either,
\* both or none) are saved over the source ledgers in DATA_DIR.
StartUpload(t) ==
    /\ pc[t] = "idle"
    /\ uploads < MaxUploads
    /\ \E saved \in SUBSET Sources :
          srcExists' = srcExists \cup saved
    /\ uploads' = uploads + 1
    /\ pc' = [pc EXCEPT ![t] = "u_wait"]
    /\ op' = [op EXCEPT ![t] = "api_upload_ledgers"]
    /\ result' = [result EXCEPT ![t] = NoTable]
    /\ started' = [started EXCEPT ![t] = {}]
    /\ UNCHANGED <<lockHolder, cache, dataFile, normalized>>
    /\ UNCHANGED notConcVars

\* with DATA_LOCK: (load_data)
LoadAcquire(t) ==
    /\ pc[t] = "ld_wait"
    /\ lockHolder = 0
    /\ lockHolder' = t
    /\ pc' = [pc EXCEPT ![t] = "ld_check"]
    /\ UNCHANGED <<op, cache, dataFile, srcExists, normalized, result, started, uploads>>
    /\ UNCHANGED notConcVars

\* if _df_cache is not None and not force:
LoadCheck(t) ==
    /\ pc[t] = "ld_check"
    /\ pc' = [pc EXCEPT ![t] =
                IF cache # NoTable /\ ~Force(t) THEN "ld_hit" ELSE "ld_build"]
    /\ UNCHANGED <<op, lockHolder, cache, dataFile, srcExists, normalized, result, started, uploads>>
    /\ UNCHANGED notConcVars

\* return _df_cache   (inside the with block: the lock is released on the way out)
LoadHit(t) ==
    /\ pc[t] = "ld_hit"
    /\ result' = [result EXCEPT ![t] = cache]
    /\ lockHolder' = 0
    /\ pc' = [pc EXCEPT ![t] = "ld_done"]
    /\ UNCHANGED <<op, cache, dataFile, srcExists, normalized, started, uploads>>
    /\ UNCHANGED notConcVars

\* if not DATA_FILE.exists(): raise FileNotFoundError
LoadNoFile(t) ==
    /\ pc[t] = "ld_build"
    /\ ~dataFile.exists
    /\ lockHolder' = 0
    /\ pc' = [pc EXCEPT ![t] = "ld_raised"]
    /\ UNCHANGED <<op, cache, dataFile, srcExists, normalized, result, started, uploads>>
    /\ UNCHANGED notConcVars

\* df = pd.read_csv(DATA_FILE, ...) ... normalized["search_index"] = ...
\* The whole table is built in the local `normalized` inside the with
\* block; leaving the block releases the lock.
LoadBuild(t) ==
    /\ pc[t] = "ld_build"
    /\ dataFile.exists
    /\ normalized' = [normalized EXCEPT ![t] = TableOf(dataFile)]
    /\ lockHolder' = 0
    /\ pc' = [pc EXCEPT ![t] = "ld_publish"]
    /\ UNCHANGED <<op, cache, dataFile, srcExists, result, started, uploads>>
    /\ UNCHANGED notConcVars

\* _df_cache = normalized      (after the with block: the lock is not held)
LoadPublish(t) ==
    /\ pc[t] = "ld_publish"
    /\ cache' = normalized[t]
    /\ pc' = [pc EXCEPT ![t] = "ld_return"]
    /\ UNCHANGED <<op, lockHolder, dataFile, srcExists, normalized, result, started, uploads>>
    /\ UNCHANGED notConcVars

\* return _df_cache            (reads the global again, the lock is not held)
LoadReturn(t) ==
    /\ pc[t] = "ld_return"
    /\ result' = [result EXCEPT ![t] = cache]
    /\ normalized' = [normalized EXCEPT ![t] = NoTable]
    /\ pc' = [pc EXCEPT ![t] = "ld_done"]
    /\ UNCHANGED <<op, lockHolder, cache, dataFile, srcExists, started, uploads>>
    /\ UNCHANGED notConcVars

\* The handler answers and the thread is free again: load_data returned
\* (ld_done), load_data raised (ld_raised), or the upload failed (u_failed).
Respond(t) ==
    /\ pc[t] \in {"ld_done", "ld_raised", "u_failed"}
    /\ pc' = [pc EXCEPT ![t] = "idle"]
    /\ op' = [op EXCEPT ![t] = "none"]
    /\ result' = [result EXCEPT ![t] = NoTable]
    /\ started' = [started EXCEPT ![t] = {}]
    /\ UNCHANGED <<lockHolder, cache, dataFile, srcExists, normalized, uploads>>
    /\ UNCHANGED notConcVars

\* with DATA_LOCK: (api_upload_ledgers)
UploadAcquire(t) ==
    /\ pc[t] = "u_wait"
    /\ lockHolder = 0
    /\ lockHolder' = t
    /\ pc' = [pc EXCEPT ![t] = "u_missing"]
    /\ UNCHANGED <<op, cache, dataFile, srcExists, normalized, result, started, uploads>>
    /\ UNCHANGED notConcVars

\* _regenerate_normalized_ledgers: the check for missing source ledgers.
\* if missing: raise FileNotFoundError -- the with block is left, the lock
\* released, and the handler answers 400.
UploadCheckMissing(t) ==
    /\ pc[t] = "u_missing"
    /\ IF Sources \subseteq srcExists
          THEN /\ pc' = [pc EXCEPT ![t] = "u_purchase"]
               /\ UNCHANGED lockHolder
          ELSE /\ pc' = [pc EXCEPT ![t] = "u_failed"]
               /\ lockHolder' = 0
    /\ UNCHANGED <<op, cache, dataFile, srcExists, normalized, result, started, uploads>>
    /\ UNCHANGED notConcVars

\* _run_normalize_script(purchase_path, purchase_tmp): the external process
\* writes into the temporary directory; a non-zero exit raises RuntimeError.
UploadClassifyPurchase(t) ==
    /\ pc[t] = "u_purchase"
    /\ started' = [started EXCEPT ![t] = @ \cup {"purchase"}]
    /\ \E returncode \in {0, 1} :
          IF returncode = 0
             THEN /\ pc' = [pc EXCEPT ![t] = "u_sales"]
                  /\ UNCHANGED lockHolder
             ELSE /\ pc' = [pc EXCEPT ![t] = "u_failed"]
                  /\ lockHolder' = 0
    /\ UNCHANGED <<op, cache, dataFile, srcExists, normalized, result, uploads>>
    /\ UNCHANGED notConcVars

\* A rebuild that rewrites the merged file before the sales ledger has been
\* classified.
UploadClassifySales_WritesFirst(t) ==
    /\ pc[t] = "u_sales"
    /\ started' = [started EXCEPT ![t] = @ \cup {"sales"}]
    /\ dataFile' = FileGen(dataFile.gen + 1)
    /\ \E returncode \in {0, 1} :
          IF returncode = 0
             THEN /\ pc' = [pc EXCEPT ![t] = "u_write"]
                  /\ UNCHANGED lockHolder
             ELSE /\ pc' = [pc EXCEPT ![t] = "u_failed"]
                  /\ lockHolder' = 0
    /\ UNCHANGED <<op, cache, srcExists, normalized, result, uploads>>
    /\ UNCHANGED notConcVars

\* _run_normalize_script(sales_path, sales_tmp)
UploadClassifySales(t) ==
    /\ pc[t] = "u_sales"
    /\ started' = [started EXCEPT ![t] = @ \cup {"sales"}]
    /\ \E returncode \in {0, 1} :
          IF returncode = 0
             THEN /\ pc' = [pc EXCEPT ![t] = "u_write"]
                  /\ UNCHANGED lockHolder
             ELSE /\ pc' = [pc EXCEPT ![t] = "u_failed"]
                  /\ lockHolder' = 0
    /\ UNCHANGED <<op, cache, dataFile, srcExists, normalized, result, uploads>>
    /\ UNCHANGED notConcVars

\* with DATA_FILE.open("w") as out_fh: out_fh.write(purchase_content);
\* out_fh.writelines(sales_lines[1:])  -- a new generation of the file
UploadWriteFile(t) ==
    /\ pc[t] = "u_write"
    /\ dataFile' = FileGen(dataFile.gen + 1)
    /\ pc' = [pc EXCEPT ![t] = "u_invalidate"]
    /\ UNCHANGED <<op, lockHolder, cache, srcExists, normalized, result, started, uploads>>
    /\ UNCHANGED notConcVars

\* _df_cache = None; the with block ends; then load_data(force=True)
UploadInvalidate(t) ==
    /\ pc[t] = "u_invalidate"
    /\ cache' = NoTable
    /\ lockHolder' = 0
    /\ pc' = [pc EXCEPT ![t] = "ld_wait"]
    /\ UNCHANGED <<op, dataFile, srcExists, normalized, result, started, uploads>>
    /\ UNCHANGED notConcVars

ConcNext ==
    \E t \in Threads :
        \/ StartQuery(t)
        \/ StartReload(t)
        \/ StartUpload(t)
        \/ LoadAcquire(t)
        \/ LoadCheck(t)
        \/ LoadHit(t)
        \/ LoadNoFile(t)
        \/ LoadBuild(t)
        \/ LoadPublish(t)
        \/ LoadReturn(t)
        \/ Respond(t)
        \/ UploadAcquire(t)
        \/ UploadCheckMissing(t)
        \/ UploadClassifyPurchase(t)
        \/ UploadClassifySales(t)
        \/ UploadWriteFile(t)
        \/ UploadInvalidate(t)

\* no request is being served
ConcIdle ==
    /\ pc = [t \in Threads |-> "idle"]
    /\ op = [t \in Threads |-> "none"]
    /\ lockHolder = 0
    /\ cache = NoTable
    /\ dataFile = NoFile
    /\ srcExists = {}
    /\ normalized = [t \in Threads |-> NoTable]
    /\ result = [t \in Threads |-> NoTable]
    /\ started = [t \in Threads |-> {}]
    /\ uploads = 0

(***************************************************************************)
(* Specifications                                                          *)
(***************************************************************************)
\* the server: queries, reloads and uploads on NumThreads threads
Init == ConcInit /\ IterIdle /\ LoadIdle /\ QueryIdle

Next == ConcNext

Spec == Init /\ [][Next]_vars

\* iter_entries over rows of every entry kind
InitIter == IterInit /\ ConcIdle /\ LoadIdle /\ QueryIdle

SpecBlocks == InitIter /\ [][NextBlocks]_vars

\* iter_entries over rows whose amount and payment cells vary
SpecPayment == InitIter /\ [][NextPayment]_vars

\* iter_entries over rows whose length and date cells vary
SpecDates == InitIter /\ [][NextDates]_vars

\* load_data's build of the canonical table, over frames of several schemas
InitLoad == LoadInit /\ ConcIdle /\ IterIdle /\ QueryIdle

SpecLoad == InitLoad /\ [][BuildTable]_vars

\* api_transactions over tables whose dates and document ids vary
InitSort == SortInit /\ ConcIdle /\ IterIdle /\ LoadIdle

SpecSort == InitSort /\ [][ApiTransactions]_vars

\* api_transactions over tables whose item and memo vary
InitItemMemo == ItemMemoInit /\ ConcIdle /\ IterIdle /\ LoadIdle

SpecItemMemo == InitItemMemo /\ [][ApiTransactions]_vars

(***************************************************************************)
(* Claims about the cache, the lock and the rebuild                        *)
(***************************************************************************)

\* C1: every load_data call that returns hands back a complete canonical
\* table (the previous snapshot or the new one), never an absent (None) one.
C1_LoadDataReturnsCompleteTable ==
    \A t \in Threads : pc[t] = "ld_done" => result[t] # NoTable

\* C2: once all in-flight operations have finished, a populated cache holds
\* the table built from the current merged interchange file (no table built
\* from an older file was published after one built from a newer file).
C2_CacheCurrentWhenQuiescent ==
    ((\A t \in Threads : pc[t] = "idle") /\ cache # NoTable)
        => cache = TableOf(dataFile)

\* C3: every step an upload's rebuild takes up to and including its failure
\* (a missing source ledger, or a classification exiting non-zero) leaves the
\* merged interchange file and the cached table exactly as they were, and a
\* missing source ledger is detected before any classification process has
\* been started.
C3_FailedRebuildLeavesFileAndCache ==
    [][\A t \in Threads :
          (pc[t] \in {"u_missing", "u_purchase", "u_sales"} /\ pc'[t] # pc[t])
             => /\ dataFile' = dataFile
                /\ cache' = cache
                /\ (pc[t] = "u_missing" /\ pc'[t] = "u_failed")
                      => started'[t] = {}]_vars

\* C3 witness: an upload has failed in the classification of the sales
\* ledger while a table was cached and a merged file of an earlier upload
\* existed.
C3_Witness ==
    \E t \in Threads :
        /\ pc[t] = "u_failed"
        /\ started[t] = {"purchase", "sales"}
        /\ cache # NoTable
        /\ dataFile.gen > 0

(***************************************************************************)
(* Claims about iter_entries                                               *)
(***************************************************************************)
IsHeader(e) == e.entry_type = "supplier_header"

HeadersUpTo(k) == Cardinality({j \in 1..k : IsHeader(emitted[j])})

LastHeaderUpTo(k) ==
    LET hs == {j \in 1..k : IsHeader(emitted[j])}
    IN IF hs = {} THEN 0 ELSE CHOOSE j \in hs : \A i \in hs : i <= j

\* C4: block_index starts at 0 and is the number of header rows seen so far
\* (it grows by one at every header, at no other row); line_in_block is 0 on
\* a header and otherwise counts the non-header rows emitted since the most
\* recent header (or the start); rows with no non-blank cell are not emitted
\* and change neither counter.
C4_BlockAndLineCounters ==
    /\ \A k \in 1..Len(emitted) :
          /\ emitted[k].block_index = IntText(HeadersUpTo(k))
          /\ emitted[k].line_in_block = IntText(k - LastHeaderUpTo(k))
    /\ \A k \in 1..Len(emitted) :
          \E i \in 1..Len(rows) :
              /\ emitted[k].source_line = IntText(i)
              /\ ~IsBlankRow(rows[i])
    /\ iterStatus = "running" =>
          /\ block_index = HeadersUpTo(Len(emitted))
          /\ line_in_block = Len(emitted) - LastHeaderUpTo(Len(emitted))
          /\ Len(emitted) = Cardinality({i \in 1..Len(rows) : ~IsBlankRow(rows[i])})

\* C4 witness: a header, a non-header row, a blank row and a second
\* non-header row have been consumed; the last entry is line 2 of block 1.
C4_Witness ==
    /\ Len(rows) = 4
    /\ Len(emitted) = 3
    /\ IsBlankRow(rows[3])
    /\ IsHeader(emitted[1])
    /\ emitted[3].block_index = <<"1">>
    /\ emitted[3].line_in_block = <<"2">>

\* the sum of two sanitized numeric strings, as a numeric string
NumericSum(a, b) ==
    IF a = <<>> /\ b = <<>> THEN <<>>
    ELSE IntText((IF a = <<>> THEN 0 ELSE IntValue(a))
                 + (IF b = <<>> THEN 0 ELSE IntValue(b)))

\* C7: the payment of a receivables entry is the arithmetic sum of the
\* sanitized values at positions 16 and 17 of its row; the payment of a
\* payables entry is the sanitized value at position 15.
C7_PaymentIsSumOrDirect ==
    \A k \in 1..Len(emitted) :
        \A i \in 1..Len(rows) :
            emitted[k].source_line = IntText(i) =>
                emitted[k].payment =
                    IF ledger_type = "urikake"
                       THEN NumericSum(sanitize_numeric(Get(rows[i], 16)),
                                       sanitize_numeric(Get(rows[i], 17)))
                       ELSE sanitize_numeric(Get(rows[i], 15))

IsIsoDate(t) ==
    /\ Len(t) = 10
    /\ t[5] = "-"
    /\ t[8] = "-"
    /\ \A i \in {1, 2, 3, 4, 6, 7, 9, 10} : t[i] \in DigitSet

\* C9: no row aborts the run; every row with a non-blank cell yields exactly
\* one entry, of a defined kind, whose transaction_date is YYYY-MM-DD or empty.
C9_RowProcessingNeverFails ==
    /\ iterStatus # "ValueError"
    /\ Len(emitted) = Cardinality({i \in 1..Len(rows) : ~IsBlankRow(rows[i])})
    /\ \A k \in 1..Len(emitted) :
          /\ emitted[k].entry_type \in EntryKinds
          /\ emitted[k].transaction_date = <<>> \/ IsIsoDate(emitted[k].transaction_date)

(***************************************************************************)
(* Claims about the canonical table                                        *)
(***************************************************************************)
\* C5: for every row whose direct document-id is absent (the source has no
\* document-id column) or blank, and whose reference fragments
\* reference_1..reference_5 exist, document_id is the non-blank fragments
\* joined in order with "-".
C5_DocumentIdJoinsFragments ==
    canon.built =>
        \A i \in DOMAIN canon.rows :
            LET r == df.rows[i]
                direct_blank == "document_id" \notin df.columns \/ r["document_id"] = NA
                fragments == \A k \in 1..5 : ReferenceColumns[k] \in df.columns
            IN  (direct_blank /\ fragments) =>
                    canon.rows[i]["document_id"] = JoinedReferences(r, df.columns)

\* C6: unit_price is the parsed source unit price where that is present and
\* parsable; where it is absent, amount / quantity when amount and a
\* non-zero quantity are both present, and absent otherwise.
C6_UnitPriceBackfill ==
    canon.built =>
        \A i \in DOMAIN canon.rows :
            LET r == df.rows[i]
                source == IF "unit_price" \in df.columns
                             THEN to_numeric(r["unit_price"]) ELSE NaN
                amount == to_numeric(r["amount"])
                quantity == to_numeric(r["quantity"])
            IN  canon.rows[i]["unit_price"] =
                    IF ~source.nan THEN source
                    ELSE IF ~amount.nan /\ ~quantity.nan /\ quantity.num # 0
                       THEN Divide(amount, quantity)
                    ELSE NaN

(***************************************************************************)
(* Claims about the query engine                                           *)
(***************************************************************************)
\* a side of item_memo: the text, or "" where it is absent or blank
Side(text) == IF text # NA /\ Strip(text) # <<>> THEN text ELSE <<>>

\* C8: item_memo is the item text and the memo text joined by the marker
\* "<br />", a blank side and its marker left out: exactly the item when the
\* memo is blank, exactly the memo when the item is blank, and no character
\* of the item or memo text is removed.
C8_ItemMemoKeepsText ==
    response.done =>
        \A i \in 1..Len(query) :
            LET item == Side(query[i].item)
                memo == Side(query[i].memo_combined)
            IN  response.items[i].item_memo =
                    IF memo = <<>> THEN item
                    ELSE IF item = <<>> THEN memo
                    ELSE item \o Marker \o memo

SameDate(a, b) ==
    \/ a.date_parsed.nat /\ b.date_parsed.nat
    \/ ~a.date_parsed.nat /\ ~b.date_parsed.nat /\ a.date_parsed.ord = b.date_parsed.ord

\* C10: the records of a query come in the order of the sorted frame, which
\* is ordered by date_parsed descending, rows of equal date by document_id
\* ascending (lexicographic), and every row whose date_parsed is absent after
\* all rows that have a date.
C10_QueryResultOrdered ==
    response.done =>
        /\ response.count = Len(query)
        /\ \A i \in 1..Len(query) :
              /\ response.items[i].date_iso = DateIso(query[i].date_parsed)
              /\ response.items[i].document_id = Blank(query[i].document_id)
        /\ \A i \in 1..Len(query) : \A j \in 1..Len(query) :
              i < j =>
                 LET a == query[i]
                     b == query[j]
                 IN  /\ a.date_parsed.nat => b.date_parsed.nat
                     /\ (~a.date_parsed.nat /\ ~b.date_parsed.nat)
                           => a.date_parsed.ord >= b.date_parsed.ord
                     /\ (SameDate(a, b) /\ a.document_id # NA /\ b.document_id # NA)
                           => ~TextLess(b.document_id, a.document_id)

\* C10 witness: the rows [2024-01-01/B], [2024-01-01/A], [absent/C] have
\* come out as [2024-01-01/A, 2024-01-01/B, absent/C].
C10_Witness ==
    /\ response.done
    /\ args = NoFilter
    /\ Len(table.rows) = 3
    /\ table.rows[1].date_parsed = Day1 /\ table.rows[1].document_id = <<"B">>
    /\ table.rows[2].date_parsed = Day1 /\ table.rows[2].document_id = <<"A">>
    /\ table.rows[3].date_parsed = NaT /\ table.rows[3].document_id = <<"C">>
    /\ Len(query) = 3
    /\ query[1].document_id = <<"A">>
    /\ query[2].document_id = <<"B">>
    /\ query[3].document_id = <<"C">> /\ query[3].date_parsed = NaT

====
